---- MODULE Spec2Model ----
(***************************************************************************)
(* The three-layer persistence engine of pearls: the SQLite index (DB),    *)
(* the JSONL log (JSONL), the markdown content tree (Content) and the      *)
(* Store that sequences them.                                              *)
(*                                                                         *)
(* Failure model: every I/O call whose error the code inspects may fail.   *)
(* The calls whose result the code discards (os.Remove of the temporary    *)
(* log file, Content.Delete in Create's rollback and in Delete) act on a   *)
(* file inside the catalog's own directories and are taken to do what      *)
(* they are called for.                                                    *)
(***************************************************************************)
EXTENDS Integers, Sequences, FiniteSets, TLC

\* ------------------------------------------------------------------ bounds
\* most Store calls made in one behaviour, starting from an empty catalog
MaxOps == 4
\* most records one stand-alone JSONL.WriteAll call is given
MaxBatch == 2

\* --------------------------------------------------------------- universe
\* one top-level ID and one namespaced ID; the namespace is held as the
\* list of its dot-separated segments
Catalog ==
  << [id |-> "notes",    namespace |-> <<>>,     name |-> "notes"],
     [id |-> "db.users", namespace |-> <<"db">>, name |-> "users"] >>

IDs == { Catalog[i].id : i \in 1..Len(Catalog) }

EntryOf ==
  [id \in IDs |-> CHOOSE e \in { Catalog[i] : i \in 1..Len(Catalog) } : e.id = id]

Entry(id) == EntryOf[id]

Contents == {"", "x", "y"}

Descriptions == {"d1", "d2"}

\* a clock reading is a number of ticks; a second has TicksPerSecond ticks
TicksPerSecond == 2

Times == {2, 3}

VARIABLES
  index,      \* DB: the pearls table, id -> [rowid, row]
  vectors,    \* DB: the pearl_embeddings table, rowid -> vector
  log,        \* JSONL: the lines of the log file, in file order
  content,    \* Content: relative path -> text, for the files that exist
  embedder,   \* Store.embedder is set
  last,       \* the call that produced this state and how it ended
  ops,        \* Store calls made so far
  snap,       \* the record set SyncToJSONL exported, while nothing else ran
  wa,         \* one JSONL.WriteAll call in progress, step by step
  procs       \* the calls of processes running side by side, step by step

vars == <<index, vectors, log, content, embedder, last, ops, snap, wa, procs>>

\* ---------------------------------------------------------------- Content
RECURSIVE Join(_)
Join(parts) ==
  IF Len(parts) = 1 THEN parts[1] ELSE parts[1] \o "/" \o Join(Tail(parts))

PathForPearl(namespace, name) == Join(namespace \o << name \o ".md" >>)

ContentExists(c, path) == path \in DOMAIN c

\* mutant: the file is created but the text never reaches it
ContentWrite_Truncated(c, path, text) ==
  [q \in (DOMAIN c) \cup {path} |-> IF q = path THEN "" ELSE c[q]]

ContentWrite(c, path, text) ==
  [q \in (DOMAIN c) \cup {path} |-> IF q = path THEN text ELSE c[q]]

\* os.WriteFile that returns an error: MkdirAll or the open failed and the
\* tree is as before, or the file was opened (O_TRUNC) and the write failed
ContentWriteFailed(c, path) == { c, ContentWrite(c, path, "") }

\* mutant: the file is left in place
ContentDelete_Kept(c, path) == c

\* os.Remove; a file that is not there is no error
ContentDelete(c, path) == [q \in (DOMAIN c) \ {path} |-> c[q]]

HashContent(text) == "sha256:" \o text

HashString(text) == HashContent(text)

\* Content.Hash and Content.Read of an existing file
ContentHash(c, path) == HashContent(c[path])

ContentRead(c, path) == c[path]

\* --------------------------------------------------------------- the Pearl
\* the record runCreate builds: no content path, no hash, no references
NewPearl(id, description, now) ==
  [ id           |-> id,
    name         |-> Entry(id).name,
    namespace    |-> Entry(id).namespace,
    description  |-> description,
    content_path |-> "",
    content_hash |-> "",
    references   |-> <<>>,
    updated_at   |-> now,
    status       |-> "active" ]

\* --------------------------------------------------------------------- DB
\* time.Format(time.RFC3339): the text names whole seconds only
FormatRFC3339(t) == t \div TicksPerSecond

ParseRFC3339(s) == s * TicksPerSecond

\* the column values Insert and Update bind
ToRow(p) ==
  [ id           |-> p.id,
    name         |-> p.name,
    namespace    |-> p.namespace,
    description  |-> p.description,
    content_path |-> p.content_path,
    content_hash |-> p.content_hash,
    refs         |-> p.references,
    updated_at   |-> FormatRFC3339(p.updated_at),
    status       |-> p.status ]

scanPearl(row) ==
  [ id           |-> row.id,
    name         |-> row.name,
    namespace    |-> row.namespace,
    description  |-> row.description,
    content_path |-> row.content_path,
    content_hash |-> row.content_hash,
    references   |-> row.refs,
    updated_at   |-> ParseRFC3339(row.updated_at),
    status       |-> row.status ]

EmptyDB == [i \in {} |-> 0]

Rowids(ix) == { ix[i].rowid : i \in DOMAIN ix }

MaxOf(S) == CHOOSE m \in S : \A n \in S : n <= m

\* the pearls table is a rowid table without AUTOINCREMENT: a new row takes
\* the largest rowid in use plus one
NextRowid(ix) == IF DOMAIN ix = {} THEN 1 ELSE MaxOf(Rowids(ix)) + 1

\* mutant: the statement is INSERT OR REPLACE
DBInsertFails_Never(ix, p) == FALSE

\* INSERT INTO pearls: id is the PRIMARY KEY
DBInsertFails(ix, p) == p.id \in DOMAIN ix

DBInsert(ix, p) ==
  [i \in (DOMAIN ix) \cup {p.id} |->
     IF i = p.id THEN [rowid |-> NextRowid(ix), row |-> ToRow(p)] ELSE ix[i]]

\* UPDATE pearls ... WHERE id = ?: zero rows affected is "pearl not found"
DBUpdateFails(ix, p) == p.id \notin DOMAIN ix

DBUpdate(ix, p) == [ix EXCEPT ![p.id].row = ToRow(p)]

DBDeleteFails(ix, id) == id \notin DOMAIN ix

DBDelete(ix, id) == [i \in (DOMAIN ix) \ {id} |-> ix[i]]

DBHas(ix, id) == id \in DOMAIN ix

\* DB.Get of a present id (an absent one yields nil: see DBHas)
DBGet(ix, id) == scanPearl(ix[id].row)

\* mutant: the listing stops after its first row
DBAll_Limit1(ix) ==
  LET present == SelectSeq(Catalog, LAMBDA e : e.id \in DOMAIN ix)
  IN [k \in 1..(IF Len(present) > 1 THEN 1 ELSE Len(present)) |->
        DBGet(ix, present[k].id)]

\* DB.All: List with no filter, ORDER BY namespace, name (Catalog's order)
DBAll(ix) ==
  LET present == SelectSeq(Catalog, LAMBDA e : e.id \in DOMAIN ix)
  IN [k \in 1..Len(present) |-> DBGet(ix, present[k].id)]

\* the record set the index holds, as Get returns it
IndexRecords(ix) == { DBGet(ix, i) : i \in DOMAIN ix }

\* ------------------------------------------------------------------ JSONL
\* json.Encoder.Encode of a Pearl: a JSON object; references is omitempty;
\* a time is written with its fraction of a second (RFC3339Nano)
JSONKeys(p) ==
  {"id", "name", "namespace", "description", "content_path", "content_hash",
   "updated_at", "status"} \cup (IF Len(p.references) = 0 THEN {} ELSE {"references"})

MarshalTime(t) == [sec |-> t \div TicksPerSecond, frac |-> t % TicksPerSecond]

UnmarshalTime(j) == j.sec * TicksPerSecond + j.frac

\* mutant: the content hash is written empty
EncodeLine_NoHash(p) ==
  [k \in JSONKeys(p) |->
     CASE k = "id"           -> p.id
       [] k = "name"         -> p.name
       [] k = "namespace"    -> p.namespace
       [] k = "description"  -> p.description
       [] k = "content_path" -> p.content_path
       [] k = "content_hash" -> ""
       [] k = "references"   -> p.references
       [] k = "updated_at"   -> MarshalTime(p.updated_at)
       [] k = "status"       -> p.status]

EncodeLine(p) ==
  [k \in JSONKeys(p) |->
     CASE k = "id"           -> p.id
       [] k = "name"         -> p.name
       [] k = "namespace"    -> p.namespace
       [] k = "description"  -> p.description
       [] k = "content_path" -> p.content_path
       [] k = "content_hash" -> p.content_hash
       [] k = "references"   -> p.references
       [] k = "updated_at"   -> MarshalTime(p.updated_at)
       [] k = "status"       -> p.status]

\* what a write that failed part-way leaves at the end of the file
PartialLine == [k \in {"partial"} |-> TRUE]

ParsesAsPearl(line) == "id" \in DOMAIN line

DecodeLine(line) ==
  [ id           |-> line["id"],
    name         |-> line["name"],
    namespace    |-> line["namespace"],
    description  |-> line["description"],
    content_path |-> line["content_path"],
    content_hash |-> line["content_hash"],
    references   |-> IF "references" \in DOMAIN line THEN line["references"]
                     ELSE <<>>,
    updated_at   |-> UnmarshalTime(line["updated_at"]),
    status       |-> line["status"] ]

\* JSONL.ReadAll: every line must parse
ReadAllFails(lg) == \E k \in 1..Len(lg) : ~ParsesAsPearl(lg[k])

ReadAll(lg) == [k \in 1..Len(lg) |-> DecodeLine(lg[k])]

\* the file JSONL.WriteAll leaves once its rename has happened
EncodeAll(pearls) == [k \in 1..Len(pearls) |-> EncodeLine(pearls[k])]

\* JSONL.Append that succeeded: O_APPEND writes the line at the end of the
\* file, so behind a line that stopped part-way it only lengthens that line
AppendLine(lg, p) ==
  IF Len(lg) > 0 /\ ~ParsesAsPearl(lg[Len(lg)]) THEN lg
  ELSE Append(lg, EncodeLine(p))

\* JSONL.Append that returned an error: nothing was opened, or the single
\* write of the line stopped part-way
AppendFailed(lg) ==
  { lg } \cup (IF Len(lg) > 0 /\ ~ParsesAsPearl(lg[Len(lg)]) THEN {}
              ELSE { Append(lg, PartialLine) })

\* the IDs of the lines of the log, with multiplicity
LogIDs(lg) == { lg[k]["id"] : k \in { j \in 1..Len(lg) : ParsesAsPearl(lg[j]) } }

LinesFor(lg, id) ==
  Cardinality({ k \in 1..Len(lg) : ParsesAsPearl(lg[k]) /\ lg[k]["id"] = id })

\* --------------------------------------------------------- vector sub-index
NoVectors == [r \in {} |-> 0]

\* Embedder.Embed over description + "\n\n" + content
EmbedText(p, text) == p.description \o "\n\n" \o text

\* the vector of a text, with the record it was computed for
Embedding(p, text) == [for |-> p.id, text |-> EmbedText(p, text)]

\* INSERT INTO pearl_embeddings(rowid, ...) VALUES ((SELECT rowid FROM pearls
\* WHERE id = ?), ...): the rowid is the table's key
InsertEmbeddingFails(vs, ix, id) ==
  id \notin DOMAIN ix \/ ix[id].rowid \in DOMAIN vs

InsertEmbedding(vs, ix, id, vec) ==
  [r \in (DOMAIN vs) \cup {ix[id].rowid} |->
     IF r = ix[id].rowid THEN vec ELSE vs[r]]

\* DELETE FROM pearl_embeddings WHERE rowid = (SELECT rowid FROM pearls
\* WHERE id = ?): with no such pearl the subquery is NULL and no row matches
DeleteEmbedding(vs, ix, id) ==
  IF id \in DOMAIN ix THEN [r \in (DOMAIN vs) \ {ix[id].rowid} |-> vs[r]]
  ELSE vs

\* delete, then insert
UpdateEmbedding(vs, ix, id, vec) ==
  LET cleared == DeleteEmbedding(vs, ix, id)
  IN IF InsertEmbeddingFails(cleared, ix, id) THEN cleared
     ELSE InsertEmbedding(cleared, ix, id, vec)

HasEmbedding(vs, ix, id) == id \in DOMAIN ix /\ ix[id].rowid \in DOMAIN vs

\* SearchSemantic with a k that covers the table: knn_matches JOIN pearls p ON
\* p.rowid = k.rowid, each result the id of the pearls row and the vector of
\* the pearl_embeddings row the join put it with
SearchSemantic(vs, ix) ==
  { [id |-> i, vec |-> vs[ix[i].rowid]] :
      i \in { j \in DOMAIN ix : ix[j].rowid \in DOMAIN vs } }

\* ------------------------------------------------------------------ Store
\* how a call ended: the step that failed ("none" when it returned nil), the
\* content it was given, and what held just before it
Outcome(op, id, step, given, text, collide, behind) ==
  [ op |-> op, id |-> id, ok |-> (step = "none"), step |-> step,
    given |-> given, text |-> text, collide |-> collide, behind |-> behind,
    embed |-> "none" ]

\* the same, for a call that reached its embedding step: whether the
\* Embedder was invoked and how that went
Embedded(o, embedOK) ==
  [o EXCEPT !.embed = IF ~embedder THEN "none"
                      ELSE IF embedOK THEN "done" ELSE "failed"]

NoSnap == [armed |-> FALSE, set |-> {}]

\* one more call, while the behaviour has calls left
Tick == ops < MaxOps /\ ops' = ops + 1

\* the index holds a pearl the log has no line for
Behind(ix, lg) == \E i \in DOMAIN ix : LinesFor(lg, i) = 0

\* no process is running side by side with another
NoProcs == <<>>

WAIdle ==
  [ pc |-> "idle", input |-> <<>>, old |-> <<>>, tmp |-> <<>>,
    hasTmp |-> FALSE, made |-> FALSE, err |-> FALSE ]

\* mutant: no rollback
CreateRollback_Skipped(c, path) == c

\* Create, step 3 failed: s.content.Delete(p.ContentPath)
CreateRollback(c, path) == ContentDelete(c, path)

\* mutant: a failed append undoes the insert and the content write
CreateKeeps_RolledBack(before, after) == before

\* Create, step 4 failed: the error is returned and nothing is undone ("DB
\* insert succeeded, JSONL can be rebuilt from DB")
CreateKeeps(before, after) == after

\* mutant: a failed embedding undoes the mutation
AfterEmbed_Reversed(before, after, embedOK) ==
  IF embedder /\ ~embedOK THEN before ELSE after

\* what a mutation leaves once its embedding step has run: a failure of the
\* Embedder is logged and the mutation stands
AfterEmbed(before, after, embedOK) == after

\* Create, step 5: embed and InsertEmbedding; a failure is logged and dropped
CreateEmbed(vs, ix, p, text, embedOK) ==
  IF embedder /\ embedOK /\ ~InsertEmbeddingFails(vs, ix, p.id)
  THEN InsertEmbedding(vs, ix, p.id, Embedding(p, text))
  ELSE vs

\* Update with content: embed and UpdateEmbedding
UpdateEmbed(vs, ix, p, text, embedOK) ==
  IF embedder /\ embedOK THEN UpdateEmbedding(vs, ix, p.id, Embedding(p, text))
  ELSE vs

\* Delete: DeleteEmbedding, called once the pearls row is gone
DeleteEmbed(vs, ixAfter, id) ==
  IF embedder THEN DeleteEmbedding(vs, ixAfter, id) ELSE vs

\* the derived path Create falls back to
DerivePath(p) ==
  IF p.content_path = "" THEN PathForPearl(p.namespace, p.name)
  ELSE p.content_path

\* Store.Create of the record p0, called on behalf of the command op
CreateWith(op, p0, text, fail, embedOK) ==
  /\ Tick
  /\ fail = "write" => text # ""
  /\ LET id      == p0.id
         p1      == [p0 EXCEPT !.content_path = DerivePath(p0)]
         path    == p1.content_path
         c1      == IF text # "" THEN ContentWrite(content, path, text)
                    ELSE content
         p2      == IF text # "" THEN [p1 EXCEPT !.content_hash = HashString(text)]
                    ELSE p1
         collide == DBHas(index, id)
         behind  == Behind(index, log)
         ix1     == DBInsert(index, p2)
     IN CASE fail = "write" ->
               /\ content' \in ContentWriteFailed(content, path)
               /\ last' = Outcome(op, id, "write", TRUE, text, collide, behind)
               /\ UNCHANGED <<index, vectors, log>>
          [] fail # "write" /\ (fail = "insert" \/ DBInsertFails(index, p2)) ->
               /\ content' = CreateRollback(c1, path)
               /\ last' = Outcome(op, id, "insert", TRUE, text, collide, behind)
               /\ UNCHANGED <<index, vectors, log>>
          [] fail = "append" /\ ~DBInsertFails(index, p2) ->
               /\ content' = CreateKeeps(content, c1)
               /\ index' = CreateKeeps(index, ix1)
               /\ log' \in AppendFailed(log)
               /\ last' = Outcome(op, id, "append", TRUE, text, collide, behind)
               /\ UNCHANGED vectors
          [] fail = "none" /\ ~DBInsertFails(index, p2) ->
               /\ content' = AfterEmbed(content, c1, embedOK)
               /\ index' = AfterEmbed(index, ix1, embedOK)
               /\ log' = AfterEmbed(log, AppendLine(log, p2), embedOK)
               /\ vectors' = CreateEmbed(vectors, ix1, p2, text, embedOK)
               /\ last' = Embedded(Outcome(op, id, "none", TRUE, text, collide, behind),
                                   embedOK)
  /\ snap' = NoSnap
  /\ UNCHANGED <<embedder, wa, procs>>

Create(id, d, now, text, fail, embedOK) ==
  CreateWith("Create", NewPearl(id, d, now), text, fail, embedOK)

\* syncToJSONL that succeeded: WriteAll of DB.All
syncToJSONL(ix) == EncodeAll(DBAll(ix))

\* mutant: the caller builds the record anew instead of editing the one Get
\* returned
UpdateArg_Rebuilt(id, d, now) ==
  LET p0 == NewPearl(id, d, now)
  IN [p0 EXCEPT !.content_path = DerivePath(p0)]

\* the record a caller hands to Update: the one Get returned, edited; or, for
\* a pearl that has vanished meanwhile, the record as it was created
UpdateArg(id, d, now) ==
  IF DBHas(index, id)
  THEN [DBGet(index, id) EXCEPT !.description = d, !.updated_at = now]
  ELSE LET p0 == NewPearl(id, d, now)
       IN [p0 EXCEPT !.content_path = DerivePath(p0)]

\* mutant: a failed DB.Update puts the old content back
UpdateKeeps_RolledBack(before, after) == before

\* Update, DB.Update failed: the error is returned and the content written
\* in the step before stays
UpdateKeeps(before, after) == after

\* Store.Update of the record p0, called on behalf of the command op
UpdateWith(op, p0, given, text, fail, embedOK) ==
  /\ Tick
  /\ ~given => text = ""
  /\ LET id      == p0.id
         path    == p0.content_path
         writes  == given /\ path # ""
         c1      == IF writes THEN ContentWrite(content, path, text) ELSE content
         p1      == IF writes THEN [p0 EXCEPT !.content_hash = HashString(text)]
                    ELSE p0
         behind  == Behind(index, log)
         ix1     == DBUpdate(index, p1)
     IN /\ fail = "write" => writes
        /\ CASE fail = "write" ->
                  /\ content' \in ContentWriteFailed(content, path)
                  /\ last' = Outcome(op, id, "write", given, text, FALSE, behind)
                  /\ UNCHANGED <<index, vectors, log>>
             [] fail # "write" /\ (fail = "update" \/ DBUpdateFails(index, p1)) ->
                  /\ content' = UpdateKeeps(content, c1)
                  /\ last' = Outcome(op, id, "update", given, text, FALSE, behind)
                  /\ UNCHANGED <<index, vectors, log>>
             [] fail = "writeall" /\ ~DBUpdateFails(index, p1) ->
                  /\ content' = c1
                  /\ index' = ix1
                  /\ last' = Outcome(op, id, "writeall", given, text, FALSE, behind)
                  /\ UNCHANGED <<vectors, log>>
             [] fail = "none" /\ ~DBUpdateFails(index, p1) ->
                  /\ content' = AfterEmbed(content, c1, ~given \/ embedOK)
                  /\ index' = AfterEmbed(index, ix1, ~given \/ embedOK)
                  /\ log' = AfterEmbed(log, syncToJSONL(ix1), ~given \/ embedOK)
                  /\ vectors' = IF given THEN UpdateEmbed(vectors, ix1, p1, text, embedOK)
                                ELSE vectors
                  /\ last' = IF given
                             THEN Embedded(Outcome(op, id, "none", given, text, FALSE, behind),
                                           embedOK)
                             ELSE Outcome(op, id, "none", given, text, FALSE, behind)
  /\ snap' = NoSnap
  /\ UNCHANGED <<embedder, wa, procs>>

Update(id, d, now, given, text, fail, embedOK) ==
  UpdateWith("Update", UpdateArg(id, d, now), given, text, fail, embedOK)

Delete(id, fail) ==
  /\ Tick
  /\ LET behind == Behind(index, log)
         ix1    == DBDelete(index, id)
         path   == DBGet(index, id).content_path
     IN CASE ~DBHas(index, id) ->
               /\ last' = Outcome("Delete", id, "get", FALSE, "", FALSE, behind)
               /\ UNCHANGED <<index, vectors, log, content>>
          [] DBHas(index, id) /\ fail = "delete" ->
               /\ last' = Outcome("Delete", id, "delete", FALSE, "", FALSE, behind)
               /\ UNCHANGED <<index, vectors, log, content>>
          [] DBHas(index, id) /\ fail = "writeall" ->
               /\ index' = ix1
               /\ content' = IF path # "" THEN ContentDelete(content, path) ELSE content
               /\ vectors' = DeleteEmbed(vectors, ix1, id)
               /\ last' = Outcome("Delete", id, "writeall", FALSE, "", FALSE, behind)
               /\ UNCHANGED log
          [] DBHas(index, id) /\ fail = "none" ->
               /\ index' = ix1
               /\ content' = IF path # "" THEN ContentDelete(content, path) ELSE content
               /\ vectors' = DeleteEmbed(vectors, ix1, id)
               /\ log' = syncToJSONL(ix1)
               /\ last' = Outcome("Delete", id, "none", FALSE, "", FALSE, behind)
  /\ snap' = NoSnap
  /\ UNCHANGED <<embedder, wa, procs>>

\* the loop of SyncFromJSONL: insert pearls[k..] into ix, stopping at the
\* first Insert that fails (a primary-key clash, or the stopAt-th insert)
RECURSIVE InsertFrom(_, _, _, _)
InsertFrom(ix, pearls, k, stopAt) ==
  IF k > Len(pearls) THEN [ix |-> ix, ok |-> TRUE]
  ELSE IF k = stopAt \/ DBInsertFails(ix, pearls[k]) THEN [ix |-> ix, ok |-> FALSE]
  ELSE InsertFrom(DBInsert(ix, pearls[k]), pearls, k + 1, stopAt)

\* DELETE FROM pearls
ClearPearls(ix) == EmptyDB

SyncFromJSONL(fail, stopAt) ==
  /\ Tick
  /\ stopAt # 0 => fail = "none"
  /\ LET behind == Behind(index, log)
         res    == InsertFrom(ClearPearls(index), ReadAll(log), 1, stopAt)
     IN CASE fail = "read" \/ ReadAllFails(log) ->
               /\ last' = Outcome("SyncFromJSONL", "", "read", FALSE, "", FALSE, behind)
               /\ UNCHANGED index
          [] fail = "clear" /\ ~ReadAllFails(log) ->
               /\ last' = Outcome("SyncFromJSONL", "", "clear", FALSE, "", FALSE, behind)
               /\ UNCHANGED index
          [] fail = "none" /\ ~ReadAllFails(log) ->
               /\ index' = res.ix
               /\ last' = Outcome("SyncFromJSONL", "",
                                  IF res.ok THEN "none" ELSE "insert",
                                  FALSE, "", FALSE, behind)
  /\ UNCHANGED <<vectors, log, content, snap, embedder, wa, procs>>

SyncToJSONL(fail) ==
  /\ Tick
  /\ LET behind == Behind(index, log)
     IN CASE fail = "writeall" ->
               /\ last' = Outcome("SyncToJSONL", "", "writeall", FALSE, "", FALSE, behind)
               /\ snap' = NoSnap
               /\ UNCHANGED log
          [] fail = "none" ->
               /\ log' = syncToJSONL(index)
               /\ snap' = [armed |-> TRUE, set |-> IndexRecords(index)]
               /\ last' = Outcome("SyncToJSONL", "", "none", FALSE, "", FALSE, behind)
  /\ UNCHANGED <<index, vectors, content, embedder, wa, procs>>

\* mutant: a hash that differs is left as it is
RefreshOne_Stale(p, c) == p

\* one turn of the loop of RefreshContentHashes: a record with no content
\* path, or whose file cannot be hashed, is skipped; a hash that differs
\* from the file's is replaced
RefreshOne(p, c) ==
  IF p.content_path # "" /\ ContentExists(c, p.content_path)
       /\ ContentHash(c, p.content_path) # p.content_hash
  THEN [p EXCEPT !.content_hash = ContentHash(c, p.content_path)]
  ELSE p

\* the loop: DB.Update for each record whose hash changed, stopping at the
\* first Update that fails (the one for pearls[stopAt])
RECURSIVE RefreshFrom(_, _, _, _, _)
RefreshFrom(ix, c, pearls, k, stopAt) ==
  IF k > Len(pearls) THEN [ix |-> ix, ok |-> TRUE]
  ELSE IF RefreshOne(pearls[k], c) = pearls[k]
       THEN RefreshFrom(ix, c, pearls, k + 1, stopAt)
       ELSE IF k = stopAt \/ DBUpdateFails(ix, pearls[k]) THEN [ix |-> ix, ok |-> FALSE]
            ELSE RefreshFrom(DBUpdate(ix, RefreshOne(pearls[k], c)), c, pearls,
                             k + 1, stopAt)

RefreshContentHashes(fail, stopAt) ==
  /\ Tick
  /\ stopAt # 0 => fail = "none"
  /\ LET behind == Behind(index, log)
         res    == RefreshFrom(index, content, DBAll(index), 1, stopAt)
     IN CASE fail = "all" ->
               /\ last' = Outcome("RefreshContentHashes", "", "all", FALSE, "", FALSE, behind)
               /\ UNCHANGED <<index, log>>
          [] fail = "none" /\ ~res.ok ->
               /\ index' = res.ix
               /\ last' = Outcome("RefreshContentHashes", "", "update", FALSE, "", FALSE, behind)
               /\ UNCHANGED log
          [] fail = "writeall" ->
               /\ index' = res.ix
               /\ last' = Outcome("RefreshContentHashes", "", "writeall", FALSE, "", FALSE, behind)
               /\ UNCHANGED log
          [] fail = "none" /\ res.ok ->
               /\ index' = res.ix
               /\ log' = syncToJSONL(res.ix)
               /\ last' = Outcome("RefreshContentHashes", "", "none", FALSE, "", FALSE, behind)
  /\ snap' = NoSnap
  /\ UNCHANGED <<vectors, content, embedder, wa, procs>>

\* the markdown file of a pearl is edited outside the Store, which is what
\* sync --refresh-hashes is there to pick up
EditFile(id, text) ==
  /\ Tick
  /\ DBHas(index, id)
  /\ DBGet(index, id).content_path # ""
  /\ content' = ContentWrite(content, DBGet(index, id).content_path, text)
  /\ last' = Outcome("EditFile", id, "none", TRUE, text, FALSE, Behind(index, log))
  /\ snap' = NoSnap
  /\ UNCHANGED <<index, vectors, log, embedder, wa, procs>>

\* a fresh clone of the catalog: pearls.db is gitignored, so OpenDB starts an
\* empty one next to the checked-out log and content tree
FreshCheckout ==
  /\ Tick
  /\ DOMAIN index # {} \/ DOMAIN vectors # {}
  /\ index' = EmptyDB
  /\ vectors' = NoVectors
  /\ snap' = NoSnap
  /\ last' = Outcome("FreshCheckout", "", "none", FALSE, "", FALSE, Behind(index, log))
  /\ UNCHANGED <<log, content, embedder, wa, procs>>

\* ------------------------------------------------------- specifications
Init ==
  /\ index = EmptyDB
  /\ vectors = NoVectors
  /\ log = <<>>
  /\ content = [q \in {} |-> ""]
  /\ embedder = FALSE
  /\ last = Outcome("init", "", "none", FALSE, "", FALSE, FALSE)
  /\ ops = 0
  /\ snap = NoSnap
  /\ wa = WAIdle
  /\ procs = NoProcs

\* the calls a caller may make, with their inputs drawn from the given sets
CreateOver(ds, nows, texts, fails, embs) ==
  \E id \in IDs, d \in ds, now \in nows, text \in texts, fail \in fails,
     embedOK \in embs :
    Create(id, d, now, text, fail, embedOK)

UpdateOver(ds, nows, texts, fails, embs) ==
  \E id \in IDs, d \in ds, now \in nows, given \in BOOLEAN, text \in texts,
     fail \in fails, embedOK \in embs :
    Update(id, d, now, given, text, fail, embedOK)

DeleteOver(fails) == \E id \in IDs, fail \in fails : Delete(id, fail)

SyncFromOver(fails) ==
  \E fail \in fails, stopAt \in 0..Len(log) : SyncFromJSONL(fail, stopAt)

SyncToOver(fails) == \E fail \in fails : SyncToJSONL(fail)

CreateFails == {"none", "write", "insert", "append"}

UpdateFails == {"none", "write", "update", "writeall"}

DeleteFails == {"none", "delete", "writeall"}

SyncFromFails == {"none", "read", "clear"}

SyncToFails == {"none", "writeall"}

\* every operation of the Store, no Embedder configured
CreateStep == CreateOver({"d1"}, {3}, {"", "x"}, CreateFails, {TRUE})

UpdateStep == UpdateOver(Descriptions, {3}, {"", "x"}, UpdateFails, {TRUE})

DeleteStep == DeleteOver(DeleteFails)

SyncFromStep == SyncFromOver(SyncFromFails)

SyncToStep == SyncToOver(SyncToFails)

Next ==
  \/ CreateStep
  \/ UpdateStep
  \/ DeleteStep
  \/ SyncFromStep
  \/ SyncToStep
  \/ FreshCheckout

Spec == Init /\ [][Next]_vars

\* Create, Update and Delete only: Create on either clock reading, Update
\* replacing the content by a different one
CreateAny == CreateOver({"d1"}, Times, {"", "x"}, CreateFails, {TRUE})

UpdateAny == UpdateOver({"d1"}, {3}, {"", "y"}, UpdateFails, {TRUE})

NextCUD == CreateAny \/ UpdateAny \/ DeleteStep

SpecCUD == Init /\ [][NextCUD]_vars

\* Create and Update only
NextCU == CreateAny \/ UpdateAny

SpecCU == Init /\ [][NextCU]_vars

\* files edited by hand and hashes refreshed, among Create, Update and Delete
RefreshFails == {"none", "all", "writeall"}

CreateForRefresh == CreateOver({"d1"}, {3}, {"", "x"}, {"none", "append"}, {TRUE})

UpdateForRefresh == UpdateOver({"d1"}, {3}, {"y"}, {"none", "update"}, {TRUE})

DeleteForRefresh == DeleteOver({"none"})

EditStep == \E id \in IDs : EditFile(id, "z")

RefreshStep ==
  \E fail \in RefreshFails, stopAt \in 0..Len(Catalog) :
    RefreshContentHashes(fail, stopAt)

NextRefresh ==
  \/ CreateForRefresh
  \/ UpdateForRefresh
  \/ DeleteForRefresh
  \/ EditStep
  \/ RefreshStep

SpecRefresh == Init /\ [][NextRefresh]_vars

\* ------------------------------------------------- the DB, called directly
\* how a DB call ended: exec is whether the statement itself could not be
\* run, err whether the call returned an error, found whether Get returned
\* a pearl rather than nil
DBOutcome(op, id, exec, err, found) ==
  [ op |-> op, id |-> id, exec |-> exec, ok |-> ~err, found |-> found ]

\* the pearls a caller may hand to DB.Insert and DB.Update
DBPearls ==
  { [NewPearl(i, d, 2) EXCEPT !.content_hash = h] :
      i \in IDs, d \in Descriptions, h \in {"", HashString("x")} }

DBInsertCall(p, execFails) ==
  /\ Tick
  /\ index' = IF execFails \/ DBInsertFails(index, p) THEN index
              ELSE DBInsert(index, p)
  /\ last' = DBOutcome("DB.Insert", p.id, execFails, execFails \/ DBInsertFails(index, p), FALSE)
  /\ UNCHANGED <<vectors, log, content, embedder, snap, wa, procs>>

DBUpdateCall(p, execFails) ==
  /\ Tick
  /\ index' = IF execFails \/ DBUpdateFails(index, p) THEN index
              ELSE DBUpdate(index, p)
  /\ last' = DBOutcome("DB.Update", p.id, execFails, execFails \/ DBUpdateFails(index, p), FALSE)
  /\ UNCHANGED <<vectors, log, content, embedder, snap, wa, procs>>

DBDeleteCall(id, execFails) ==
  /\ Tick
  /\ index' = IF execFails \/ DBDeleteFails(index, id) THEN index
              ELSE DBDelete(index, id)
  /\ last' = DBOutcome("DB.Delete", id, execFails, execFails \/ DBDeleteFails(index, id), FALSE)
  /\ UNCHANGED <<vectors, log, content, embedder, snap, wa, procs>>

\* DB.Get: scanPearl turns sql.ErrNoRows into (nil, nil)
DBGetCall(id, execFails) ==
  /\ Tick
  /\ last' = DBOutcome("DB.Get", id, execFails, execFails, ~execFails /\ DBHas(index, id))
  /\ UNCHANGED <<index, vectors, log, content, embedder, snap, wa, procs>>

NextDB ==
  \/ \E p \in DBPearls, execFails \in BOOLEAN : DBInsertCall(p, execFails)
  \/ \E p \in DBPearls, execFails \in BOOLEAN : DBUpdateCall(p, execFails)
  \/ \E id \in IDs, execFails \in BOOLEAN : DBDeleteCall(id, execFails)
  \/ \E id \in IDs, execFails \in BOOLEAN : DBGetCall(id, execFails)

SpecDB == Init /\ [][NextDB]_vars

\* ----------------------------------------------------------- DB.List
\* the priorities a caller gives a record (create --priority)
Priorities == {0, 5, 10}

\* a row with the priority its record was created with
InsertWithPriority(ix, p, pr) ==
  [i \in (DOMAIN ix) \cup {p.id} |->
     IF i = p.id
     THEN [rowid |-> NextRowid(ix), row |-> ToRow(p), priority |-> pr]
     ELSE ix[i]]

\* the namespace filters of ListOptions: none, or a namespace
ListNamespaces == { <<>> } \cup { Catalog[i].namespace : i \in 1..Len(Catalog) }

\* LIMIT, 0 standing for no limit
ListLimits == 0..Len(Catalog)

\* namespace = ? OR namespace LIKE ? || '.%'
RECURSIVE IsPrefix(_, _)
IsPrefix(a, b) ==
  IF Len(a) = 0 THEN TRUE
  ELSE IF Len(b) = 0 THEN FALSE
  ELSE Head(a) = Head(b) /\ IsPrefix(Tail(a), Tail(b))

MatchesNamespace(e, ns) == ns = <<>> \/ IsPrefix(ns, e.namespace)

\* DB.List: WHERE the filters, ORDER BY namespace, name (Catalog's order),
\* LIMIT when one is given
DBList(ix, ns, limit) ==
  LET hits == SelectSeq(Catalog,
                        LAMBDA e : e.id \in DOMAIN ix /\ MatchesNamespace(e, ns))
      n    == IF limit > 0 /\ limit < Len(hits) THEN limit ELSE Len(hits)
  IN [k \in 1..n |-> [id |-> hits[k].id, priority |-> ix[hits[k].id].priority]]

ListInsert(id, pr) ==
  /\ Tick
  /\ ~DBHas(index, id)
  /\ index' = InsertWithPriority(index, NewPearl(id, "d1", 2), pr)
  /\ last' = [op |-> "DB.Insert", id |-> id, result |-> <<>>]
  /\ UNCHANGED <<vectors, log, content, embedder, snap, wa, procs>>

ListRemove(id) ==
  /\ Tick
  /\ DBHas(index, id)
  /\ index' = DBDelete(index, id)
  /\ last' = [op |-> "DB.Delete", id |-> id, result |-> <<>>]
  /\ UNCHANGED <<vectors, log, content, embedder, snap, wa, procs>>

ListCall(ns, limit) ==
  /\ Tick
  /\ last' = [op |-> "DB.List", id |-> "", result |-> DBList(index, ns, limit)]
  /\ UNCHANGED <<index, vectors, log, content, embedder, snap, wa, procs>>

InitList ==
  /\ index = EmptyDB
  /\ vectors = NoVectors
  /\ log = <<>>
  /\ content = [q \in {} |-> ""]
  /\ embedder = FALSE
  /\ last = [op |-> "init", id |-> "", result |-> <<>>]
  /\ ops = 0
  /\ snap = NoSnap
  /\ wa = WAIdle
  /\ procs = NoProcs

NextList ==
  \/ \E id \in IDs, pr \in Priorities : ListInsert(id, pr)
  \/ \E id \in IDs : ListRemove(id)
  \/ \E ns \in ListNamespaces, limit \in ListLimits : ListCall(ns, limit)

SpecList == InitList /\ [][NextList]_vars

\* ------------------------------------------------------------- doctor
\* mutant: the schema is run as a plain CREATE TABLE over a new file
OpenDB_Recreate(ix) == EmptyDB

\* OpenDB on the catalog's pearls.db: CREATE TABLE IF NOT EXISTS keeps the rows
OpenDB(ix) == ix

Issue(check, about) == [check |-> check, about |-> about]

\* checkJSONLSync: the first of its tests that fails is its one issue
checkJSONLSync(ix, lg, dbFails) ==
  IF ReadAllFails(lg) THEN { Issue("sync", "read JSONL") }
  ELSE IF dbFails THEN { Issue("sync", "count DB") }
  ELSE IF Len(ReadAll(lg)) # Cardinality(DOMAIN ix)
       THEN { Issue("sync", "count mismatch") }
  ELSE IF \E i \in DOMAIN ix : i \notin LogIDs(lg)
       THEN { Issue("sync", "in SQLite but not JSONL") }
  ELSE {}

\* Content.ListFiles: the markdown files under the content directory
ListFiles(c) == DOMAIN c

\* checkOrphanedContent: one issue for each file no record names
checkOrphanedContent(ix, c, dbFails) ==
  IF dbFails THEN { Issue("orphaned", "list pearls") }
  ELSE LET pearlPaths == { DBGet(ix, i).content_path :
                             i \in { j \in DOMAIN ix : DBGet(ix, j).content_path # "" } }
       IN { Issue("orphaned", f) : f \in ListFiles(c) \ pearlPaths }

\* mutant: a record's file is taken to be there
MissingContent_AllThere(ix, c) == {}

\* the records checkMissingContent collects
MissingContent(ix, c) ==
  { i \in DOMAIN ix :
      DBGet(ix, i).content_path # "" /\ ~ContentExists(c, DBGet(ix, i).content_path) }

\* checkMissingContent: one issue naming all the records without their file
checkMissingContent(ix, c, dbFails) ==
  IF dbFails THEN { Issue("missing", "list pearls") }
  ELSE IF MissingContent(ix, c) # {}
       THEN { Issue("missing", MissingContent(ix, c)) }
  ELSE {}

\* checkBrokenReferences: one issue for each reference to an ID not there
checkBrokenReferences(ix, dbFails) ==
  IF dbFails THEN { Issue("references", "list pearls") }
  ELSE UNION { { Issue("references", <<i, DBGet(ix, i).references[k]>>) :
                   k \in { n \in 1..Len(DBGet(ix, i).references) :
                             DBGet(ix, i).references[n] \notin DOMAIN ix } } :
               i \in DOMAIN ix }

\* checkConfigValidity: config.Load of config.yaml
checkConfigValidity(configOK) ==
  IF configOK THEN {} ELSE { Issue("config", "load") }

\* runDoctor: getStore, then the five checks over the opened store
Doctor(fail, configOK) ==
  /\ Tick
  /\ IF fail = "open"
     THEN /\ last' = [op |-> "doctor", opened |-> FALSE, dbFails |-> FALSE,
                      configOK |-> configOK, issues |-> {}]
          /\ UNCHANGED index
     ELSE LET ix      == OpenDB(index)
              dbFails == fail = "db"
          IN /\ index' = ix
             /\ last' = [op |-> "doctor", opened |-> TRUE, dbFails |-> dbFails,
                         configOK |-> configOK,
                         issues |-> checkJSONLSync(ix, log, dbFails)
                                      \cup checkOrphanedContent(ix, content, dbFails)
                                      \cup checkMissingContent(ix, content, dbFails)
                                      \cup checkBrokenReferences(ix, dbFails)
                                      \cup checkConfigValidity(configOK)]
  /\ snap' = NoSnap
  /\ UNCHANGED <<vectors, log, content, embedder, wa, procs>>

DoctorFails == {"none", "open", "db"}

CreateForDoctor == CreateOver({"d1"}, {3}, {"", "x"}, {"none", "write", "append"}, {TRUE})

DeleteForDoctor == DeleteOver({"none"})

DoctorStep == \E fail \in DoctorFails, configOK \in BOOLEAN : Doctor(fail, configOK)

NextDoctor ==
  \/ CreateForDoctor
  \/ DeleteForDoctor
  \/ FreshCheckout
  \/ DoctorStep

SpecDoctor == Init /\ [][NextDoctor]_vars

\* ------------------------------------------------ reference lookup
\* three top-level records that may reference one another
RefIDs == {"a", "b", "c"}

RefLists(id) ==
  { <<>> } \cup { <<x>> : x \in RefIDs \ {id} }
           \cup { r \in (RefIDs \ {id}) \X (RefIDs \ {id}) : r[1] # r[2] }

RefPearl(id, refs, d) ==
  [ id           |-> id,
    name         |-> id,
    namespace    |-> <<>>,
    description  |-> d,
    content_path |-> "",
    content_hash |-> "",
    references   |-> refs,
    updated_at   |-> 2,
    status       |-> "active" ]

\* the pearls a caller may hand to DB.Insert and DB.Update
RefPearls(ds) ==
  UNION { { RefPearl(i, r, d) : r \in RefLists(i), d \in ds } : i \in RefIDs }

References(ix, i) ==
  { DBGet(ix, i).references[k] : k \in 1..Len(DBGet(ix, i).references) }

\* mutant: only the first entry of a record's list is looked at
FindReferencingPearls_FirstOnly(ix, id) ==
  { i \in DOMAIN ix :
      Len(DBGet(ix, i).references) > 0 /\ DBGet(ix, i).references[1] = id }

\* DB.FindReferencingPearls: the IDs of the records whose references hold id
FindReferencingPearls(ix, id) ==
  { i \in DOMAIN ix : id \in References(ix, i) }

FindReferencingCall(id) ==
  /\ Tick
  /\ last' = [op |-> "DB.FindReferencingPearls", id |-> id, ok |-> TRUE,
              result |-> FindReferencingPearls(index, id)]
  /\ UNCHANGED <<index, vectors, log, content, embedder, snap, wa, procs>>

RefInsertStep ==
  \E p \in RefPearls({"d1"}) : DBInsertCall(p, FALSE)

\* runUpdate: the record as Get returned it, with fields replaced
RefUpdateStep ==
  \E p \in RefPearls(Descriptions) :
    /\ DBHas(index, p.id) => p.references \in {<<>>, DBGet(index, p.id).references}
    /\ DBUpdateCall(p, FALSE)

RefDeleteStep == \E id \in RefIDs : DBDeleteCall(id, FALSE)

RefFindStep == \E id \in RefIDs : FindReferencingCall(id)

NextRefs == RefInsertStep \/ RefUpdateStep \/ RefDeleteStep \/ RefFindStep

\* a catalog opened with its three records already inserted
InitRefs ==
  /\ \E rb \in RefLists("b"), rc \in RefLists("c") :
       index = DBInsert(DBInsert(DBInsert(EmptyDB, RefPearl("a", <<>>, "d1")),
                                 RefPearl("b", rb, "d1")),
                        RefPearl("c", rc, "d1"))
  /\ vectors = NoVectors
  /\ log = <<>>
  /\ content = [q \in {} |-> ""]
  /\ embedder = FALSE
  /\ last = DBOutcome("init", "", FALSE, FALSE, FALSE)
  /\ ops = 0
  /\ snap = NoSnap
  /\ wa = WAIdle
  /\ procs = NoProcs

SpecRefs == InitRefs /\ [][NextRefs]_vars

\* ---------------------------------------------- glob and scope lookup
\* file paths and glob patterns, held as the list of their segments; in a
\* pattern "*" stands for one segment and "**" for any number of them
CtxPaths == { <<"src", "api", "users.go">>, <<"docs", "README.md">> }

CtxGlobs == { <<"src", "**">>, <<"docs", "*">> }

CtxScopes == {"backend", "frontend"}

\* doublestar.Match
RECURSIVE Match(_, _)
Match(pat, path) ==
  IF Len(pat) = 0 THEN Len(path) = 0
  ELSE IF Head(pat) = "**"
       THEN Match(Tail(pat), path) \/ (Len(path) > 0 /\ Match(pat, Tail(path)))
  ELSE /\ Len(path) > 0
       /\ Head(pat) \in {"*", Head(path)}
       /\ Match(Tail(pat), Tail(path))

\* an absent --for is the empty path
MatchPath(path, globs) ==
  path # <<>> /\ \E g \in globs : Match(g, path)

\* a row with the globs and scopes its record was created with
InsertWithGlobs(ix, p, globs, scopes) ==
  [i \in (DOMAIN ix) \cup {p.id} |->
     IF i = p.id
     THEN [rowid |-> NextRowid(ix), row |-> ToRow(p), globs |-> globs, scopes |-> scopes]
     ELSE ix[i]]

\* the order the lookups return their rows in
CtxOrder == <<"a", "b", "c">>

\* DB.FindByGlob: the records one of whose globs matches the path
FindByGlob(ix, path) ==
  SelectSeq(CtxOrder, LAMBDA i : i \in DOMAIN ix /\ MatchPath(path, ix[i].globs))

\* DB.FindByScope: the records whose scopes hold the scope
FindByScope(ix, scope) ==
  SelectSeq(CtxOrder, LAMBDA i : i \in DOMAIN ix /\ scope \in ix[i].scopes)

Seen(ids) == { ids[k] : k \in 1..Len(ids) }

\* mutant: every match is appended
AddUnseen_All(ids, more) == ids \o more

\* runContext: the IDs not seen so far are appended, in their order
RECURSIVE AddUnseen(_, _)
AddUnseen(ids, more) ==
  IF Len(more) = 0 THEN ids
  ELSE IF Head(more) \in Seen(ids) THEN AddUnseen(ids, Tail(more))
  ELSE AddUnseen(Append(ids, Head(more)), Tail(more))

\* runContext: the IDs given, then --for's matches, then --scope's
ContextIDs(ix, args, for, scope) ==
  LET given  == AddUnseen(<<>>, args)
      globed == IF for # <<>> THEN AddUnseen(given, FindByGlob(ix, for)) ELSE given
  IN IF scope # "" THEN AddUnseen(globed, FindByScope(ix, scope)) ELSE globed

CtxInsert(id, globs, scopes) ==
  /\ Tick
  /\ ~DBHas(index, id)
  /\ index' = InsertWithGlobs(index, RefPearl(id, <<>>, "d1"), globs, scopes)
  /\ last' = [op |-> "DB.Insert", id |-> id]
  /\ UNCHANGED <<vectors, log, content, embedder, snap, wa, procs>>

CtxRemove(id) ==
  /\ Tick
  /\ DBHas(index, id)
  /\ index' = DBDelete(index, id)
  /\ last' = [op |-> "DB.Delete", id |-> id]
  /\ UNCHANGED <<vectors, log, content, embedder, snap, wa, procs>>

CtxContext(args, for, scope) ==
  /\ Tick
  /\ Len(args) > 0 \/ for # <<>> \/ scope # ""
  /\ last' = [op |-> "context", id |-> "", args |-> args, for |-> for, scope |-> scope,
              ids |-> ContextIDs(index, args, for, scope)]
  /\ UNCHANGED <<index, vectors, log, content, embedder, snap, wa, procs>>

\* a record is created with no glob or with one
CtxGlobSets == { {} } \cup { {g} : g \in CtxGlobs }

\* the IDs named on the command line
CtxArgs == { <<>>, <<"b", "b">> }

NextCtx ==
  \/ \E id \in RefIDs, globs \in CtxGlobSets, scopes \in {{}, {"backend"}} :
       CtxInsert(id, globs, scopes)
  \/ \E id \in RefIDs : CtxRemove(id)
  \/ \E args \in CtxArgs, for \in CtxPaths \cup {<<>>}, scope \in CtxScopes \cup {""} :
       CtxContext(args, for, scope)

SpecCtx == InitList /\ [][NextCtx]_vars

\* ------------------------------------------------ archive and delete
\* mutant: the record goes back as Get returned it
Archived_Untouched(p, now) == p

\* p.Status = StatusArchived; p.UpdatedAt = time.Now()
Archived(p, now) == [p EXCEPT !.status = "archived", !.updated_at = now]

\* runArchive, and runDelete without --force: Get, then Update with no content
SoftArchive(op, id, now, fail) ==
  IF DBHas(index, id)
  THEN UpdateWith(op, Archived(DBGet(index, id), now), FALSE, "", fail, TRUE)
  ELSE /\ Tick
       /\ fail = "none"
       /\ last' = Outcome(op, id, "get", FALSE, "", FALSE, Behind(index, log))
       /\ snap' = NoSnap
       /\ UNCHANGED <<index, vectors, log, content, embedder, wa, procs>>

runArchive(id, now, fail) == SoftArchive("archive", id, now, fail)

\* runDelete of one pearl; with --force the prompt is taken to be answered yes
runDelete(id, force, now, fail) ==
  IF force
  THEN /\ fail # "update"
       /\ IF DBHas(index, id) THEN Delete(id, fail)
          ELSE /\ Tick
               /\ fail = "none"
               /\ last' = Outcome("Delete", id, "get", FALSE, "", FALSE, Behind(index, log))
               /\ snap' = NoSnap
               /\ UNCHANGED <<index, vectors, log, content, embedder, wa, procs>>
  ELSE SoftArchive("delete", id, now, fail)

ArchiveFails == {"none", "update", "writeall"}

CreateForArchive == CreateOver({"d1"}, {2}, {"", "x"}, {"none", "append"}, {TRUE})

ArchiveStep == \E id \in IDs, fail \in ArchiveFails : runArchive(id, 3, fail)

DeleteCmdStep ==
  \E id \in IDs, force \in BOOLEAN, fail \in ArchiveFails : runDelete(id, force, 3, fail)

NextArchive == CreateForArchive \/ ArchiveStep \/ DeleteCmdStep

SpecArchive == Init /\ [][NextArchive]_vars

\* ------------------------------------------------------- pearls create
\* the IDs typed on the command line, character by character
IDInputs ==
  { <<>>, <<"a">>, <<"a", "7">>, <<"7", "a">>, <<"A">>, <<"a", "_", "b">>,
    <<"a", "-", "b">>, <<"-">>, <<"_", "a">>, <<"a", ".", "b">>,
    <<"a", ".", ".", "b">>, <<".", "a">>, <<"a", ".">>, <<"a", ".", "7">>,
    <<"a", ".", "b", "-", "c">>, <<"a", ".", "B">> }

Lower == {"a", "b", "c"}

Digit == {"7"}

RECURSIVE Concat(_)
Concat(chars) == IF Len(chars) = 0 THEN "" ELSE Head(chars) \o Concat(Tail(chars))

\* strings.Split(ns, "."): the pieces between the dots, empty ones included
RECURSIVE Split(_)
Split(chars) ==
  IF \A k \in 1..Len(chars) : chars[k] # "." THEN << chars >>
  ELSE LET d == CHOOSE k \in 1..Len(chars) :
                  chars[k] = "." /\ \A j \in 1..(k - 1) : chars[j] # "."
       IN << SubSeq(chars, 1, d - 1) >> \o Split(SubSeq(chars, d + 1, Len(chars)))

\* namespaceSegmentPattern: ^[a-z][a-z0-9_]*$
isValidSegment(seg) ==
  /\ Len(seg) > 0
  /\ seg[1] \in Lower
  /\ \A k \in 2..Len(seg) : seg[k] \in Lower \cup Digit \cup {"_"}

\* ValidateNamespace returns an error
ValidateNamespaceFails(chars) ==
  Len(chars) = 0 \/ \E k \in 1..Len(Split(chars)) : ~isValidSegment(Split(chars)[k])

\* the record runCreate builds for a valid ID: ParentNamespace and LastSegment
CreatePearl(chars, now) ==
  LET segs == Split(chars)
  IN [ id           |-> Concat(chars),
       name         |-> Concat(segs[Len(segs)]),
       namespace    |-> [k \in 1..(Len(segs) - 1) |-> Concat(segs[k])],
       description  |-> "d1",
       content_path |-> "",
       content_hash |-> "",
       references   |-> <<>>,
       updated_at   |-> now,
       status       |-> "active" ]

\* runCreate: validate the ID, open the store, refuse an ID that is there,
\* then Store.Create
runCreate(chars, now, text, fail) ==
  IF ValidateNamespaceFails(chars)
  THEN /\ Tick
       /\ fail = "none"
       /\ last' = Outcome("runCreate", Concat(chars), "validate", FALSE, "", FALSE,
                          Behind(index, log))
       /\ snap' = NoSnap
       /\ UNCHANGED <<index, vectors, log, content, embedder, wa, procs>>
  ELSE IF DBHas(index, Concat(chars))
  THEN /\ Tick
       /\ fail = "none"
       /\ last' = Outcome("runCreate", Concat(chars), "exists", FALSE, "", TRUE,
                          Behind(index, log))
       /\ snap' = NoSnap
       /\ UNCHANGED <<index, vectors, log, content, embedder, wa, procs>>
  ELSE CreateWith("runCreate", CreatePearl(chars, now), text, fail, TRUE)

NextIDs ==
  \E chars \in IDInputs, fail \in {"none", "insert"} : runCreate(chars, 3, "x", fail)

SpecIDs == Init /\ [][NextIDs]_vars

\* ------------------------------------------- processes side by side
\* two pearls processes on one catalog; nothing in the Store locks across
\* processes, so their calls interleave step by step. Each DB statement is
\* one step (SQLite serialises them); each file-system call is one step.
Procs == {"p1", "p2"}

Other(p) == CHOOSE q \in Procs : q # p

IdleFrame ==
  [ op |-> "none", pc |-> "idle", id |-> "", text |-> "", rec |-> <<>>,
    input |-> <<>>, off |-> 0, fd |-> "none", res |-> "", overlap |-> FALSE ]

\* a gap left in a file by a write beyond its end
Hole == [k \in {"hole"} |-> TRUE]

Running(f) == f.pc \notin {"idle", "done"}

\* process p enters a call: it overlaps whatever call the other is in
Begin(p, f) ==
  [procs EXCEPT !.fr =
     [q \in Procs |->
        IF q = p THEN [f EXCEPT !.overlap = Running(procs.fr[Other(p)])]
        ELSE IF Running(procs.fr[q]) THEN [procs.fr[q] EXCEPT !.overlap = TRUE]
        ELSE procs.fr[q]]]

\* process p moves on
Goes(p, f) == [procs EXCEPT !.fr[p] = f]

\* process p returns
Returned(f, ok) ==
  [f EXCEPT !.pc = "done", !.res = IF ok THEN "ok" ELSE "err", !.fd = "none"]

Frame(p) == procs.fr[p]

PFrame == UNCHANGED <<vectors, embedder, snap, wa>>

Returns(p, ok) == last' = [op |-> Frame(p).op, id |-> Frame(p).id, ok |-> ok, proc |-> p]

\* Store.Create is called
PStartCreate(p, id, text) ==
  /\ Tick
  /\ ~Running(Frame(p))
  /\ LET p0 == NewPearl(id, "d1", 2)
     IN procs' = Begin(p, [IdleFrame EXCEPT !.op = "Create", !.pc = "write", !.id = id,
                                           !.text = text,
                                           !.rec = [p0 EXCEPT !.content_path = DerivePath(p0)]])
  /\ UNCHANGED <<index, log, content, last>>
  /\ PFrame

\* Create: Content.Write, and the hash of what was written
PWrite(p) ==
  /\ Frame(p).pc = "write"
  /\ content' = IF Frame(p).text # ""
                THEN ContentWrite(content, Frame(p).rec.content_path, Frame(p).text)
                ELSE content
  /\ procs' = Goes(p, [Frame(p) EXCEPT !.pc = "insert",
                                       !.rec.content_hash = IF Frame(p).text # ""
                                                            THEN HashString(Frame(p).text)
                                                            ELSE @])
  /\ UNCHANGED <<index, log, last, ops>>
  /\ PFrame

\* Create: DB.Insert
PInsert(p) ==
  /\ Frame(p).pc = "insert"
  /\ IF DBInsertFails(index, Frame(p).rec)
     THEN /\ procs' = Goes(p, [Frame(p) EXCEPT !.pc = "rollback"])
          /\ UNCHANGED index
     ELSE /\ index' = DBInsert(index, Frame(p).rec)
          /\ procs' = Goes(p, [Frame(p) EXCEPT !.pc = "append"])
  /\ UNCHANGED <<log, content, last, ops>>
  /\ PFrame

\* Create: the rollback of the content file, and the error return
PRollback(p) ==
  /\ Frame(p).pc = "rollback"
  /\ content' = CreateRollback(content, Frame(p).rec.content_path)
  /\ procs' = Goes(p, Returned(Frame(p), FALSE))
  /\ Returns(p, FALSE)
  /\ UNCHANGED <<index, log, ops>>
  /\ PFrame

\* Create: JSONL.Append
PAppend(p) ==
  /\ Frame(p).pc = "append"
  /\ log' = AppendLine(log, Frame(p).rec)
  /\ procs' = Goes(p, Returned(Frame(p), TRUE))
  /\ Returns(p, TRUE)
  /\ UNCHANGED <<index, content, ops>>
  /\ PFrame

\* runUpdate has got the record and calls Store.Update; no text is no content
PStartUpdate(p, id, text) ==
  /\ Tick
  /\ ~Running(Frame(p))
  /\ DBHas(index, id)
  /\ procs' = Begin(p, [IdleFrame EXCEPT !.op = "Update", !.pc = "uwrite", !.id = id,
                                        !.text = text,
                                        !.rec = [DBGet(index, id) EXCEPT !.description = "d2",
                                                                         !.updated_at = 3]])
  /\ UNCHANGED <<index, log, content, last>>
  /\ PFrame

\* Update: Content.Write when content was given
PUWrite(p) ==
  /\ Frame(p).pc = "uwrite"
  /\ LET writes == Frame(p).text # "" /\ Frame(p).rec.content_path # ""
     IN /\ content' = IF writes
                      THEN ContentWrite(content, Frame(p).rec.content_path, Frame(p).text)
                      ELSE content
        /\ procs' = Goes(p, [Frame(p) EXCEPT !.pc = "update",
                                             !.rec.content_hash = IF writes
                                                                  THEN HashString(Frame(p).text)
                                                                  ELSE @])
  /\ UNCHANGED <<index, log, last, ops>>
  /\ PFrame

\* Update: DB.Update
PUpdateRow(p) ==
  /\ Frame(p).pc = "update"
  /\ IF DBUpdateFails(index, Frame(p).rec)
     THEN /\ procs' = Goes(p, Returned(Frame(p), FALSE))
          /\ Returns(p, FALSE)
          /\ UNCHANGED index
     ELSE /\ index' = DBUpdate(index, Frame(p).rec)
          /\ procs' = Goes(p, [Frame(p) EXCEPT !.pc = "all"])
          /\ UNCHANGED last
  /\ UNCHANGED <<log, content, ops>>
  /\ PFrame

\* Store.Delete is called
PStartDelete(p, id) ==
  /\ Tick
  /\ ~Running(Frame(p))
  /\ procs' = Begin(p, [IdleFrame EXCEPT !.op = "Delete", !.pc = "get", !.id = id])
  /\ UNCHANGED <<index, log, content, last>>
  /\ PFrame

\* Delete: DB.Get
PGet(p) ==
  /\ Frame(p).pc = "get"
  /\ IF DBHas(index, Frame(p).id)
     THEN /\ procs' = Goes(p, [Frame(p) EXCEPT !.pc = "delete", !.rec = DBGet(index, Frame(p).id)])
          /\ UNCHANGED last
     ELSE /\ procs' = Goes(p, Returned(Frame(p), FALSE))
          /\ Returns(p, FALSE)
  /\ UNCHANGED <<index, log, content, ops>>
  /\ PFrame

\* Delete: DB.Delete
PDeleteRow(p) ==
  /\ Frame(p).pc = "delete"
  /\ IF DBDeleteFails(index, Frame(p).id)
     THEN /\ procs' = Goes(p, Returned(Frame(p), FALSE))
          /\ Returns(p, FALSE)
          /\ UNCHANGED index
     ELSE /\ index' = DBDelete(index, Frame(p).id)
          /\ procs' = Goes(p, [Frame(p) EXCEPT !.pc = "unlink"])
          /\ UNCHANGED last
  /\ UNCHANGED <<log, content, ops>>
  /\ PFrame

\* Delete: Content.Delete
PUnlink(p) ==
  /\ Frame(p).pc = "unlink"
  /\ content' = IF Frame(p).rec.content_path # ""
                THEN ContentDelete(content, Frame(p).rec.content_path)
                ELSE content
  /\ procs' = Goes(p, [Frame(p) EXCEPT !.pc = "all"])
  /\ UNCHANGED <<index, log, last, ops>>
  /\ PFrame

\* syncToJSONL: DB.All
PAll(p) ==
  /\ Frame(p).pc = "all"
  /\ procs' = Goes(p, [Frame(p) EXCEPT !.pc = "create", !.input = DBAll(index)])
  /\ UNCHANGED <<index, log, content, last, ops>>
  /\ PFrame

\* JSONL.WriteAll is called on its own
PStartWriteAll(p, pearls) ==
  /\ Tick
  /\ ~Running(Frame(p))
  /\ procs' = Begin(p, [IdleFrame EXCEPT !.op = "WriteAll", !.pc = "create", !.input = pearls])
  /\ UNCHANGED <<index, log, content, last>>
  /\ PFrame

\* WriteAll: os.Create(tmpPath), the one path both processes use: a file that
\* is there is truncated, and stays the file the other has open
PCreateTmp(p) ==
  /\ Frame(p).pc = "create"
  /\ procs' = [Goes(p, [Frame(p) EXCEPT !.pc = "encode", !.fd = "tmp", !.off = 0])
                 EXCEPT !.tmp = <<>>, !.tmpThere = TRUE]
  /\ UNCHANGED <<index, log, content, last, ops>>
  /\ PFrame

\* a write of one line at a descriptor's offset
WriteAt(file, pos, line) ==
  [k \in 1..(IF pos > Len(file) THEN pos ELSE Len(file)) |->
     IF k = pos THEN line ELSE IF k <= Len(file) THEN file[k] ELSE Hole]

\* WriteAll: encoder.Encode of the next pearl, into the file the descriptor
\* is on: the temporary file, the log once the other process has renamed
\* that file, or a file no path names any more
PEncode(p) ==
  /\ Frame(p).pc = "encode"
  /\ Frame(p).off < Len(Frame(p).input)
  /\ LET line == EncodeLine(Frame(p).input[Frame(p).off + 1])
         f    == [Frame(p) EXCEPT !.off = @ + 1]
     IN CASE Frame(p).fd = "tmp" ->
               /\ procs' = [Goes(p, f) EXCEPT !.tmp = WriteAt(procs.tmp, f.off, line)]
               /\ UNCHANGED log
          [] Frame(p).fd = "log" ->
               /\ log' = WriteAt(log, f.off, line)
               /\ procs' = Goes(p, f)
          [] Frame(p).fd = "gone" ->
               /\ procs' = Goes(p, f)
               /\ UNCHANGED log
  /\ UNCHANGED <<index, content, last, ops>>
  /\ PFrame

\* WriteAll: file.Sync and file.Close, the loop being over
PClose(p) ==
  /\ Frame(p).pc = "encode"
  /\ Frame(p).off = Len(Frame(p).input)
  /\ procs' = Goes(p, [Frame(p) EXCEPT !.pc = "rename", !.fd = "none"])
  /\ UNCHANGED <<index, log, content, last, ops>>
  /\ PFrame

\* the descriptor of the other process follows its file
Moved(p, to) ==
  [q \in Procs |->
     IF q # p /\ procs.fr[q].fd = "tmp" THEN [procs.fr[q] EXCEPT !.fd = to]
     ELSE procs.fr[q]]

\* WriteAll: os.Rename(tmpPath, j.path); it fails when the other process has
\* renamed the file away
PRename(p) ==
  /\ Frame(p).pc = "rename"
  /\ IF procs.tmpThere
     THEN /\ log' = procs.tmp
          /\ procs' = [fr |-> [Moved(p, "log") EXCEPT ![p] = Returned(Frame(p), TRUE)],
                       tmp |-> <<>>, tmpThere |-> FALSE]
          /\ Returns(p, TRUE)
     ELSE /\ procs' = Goes(p, [Frame(p) EXCEPT !.pc = "remove"])
          /\ UNCHANGED <<log, last>>
  /\ UNCHANGED <<index, content, ops>>
  /\ PFrame

\* WriteAll: os.Remove(tmpPath) after the failed rename, and the error return
PRemoveTmp(p) ==
  /\ Frame(p).pc = "remove"
  /\ procs' = [fr |-> [Moved(p, IF procs.tmpThere THEN "gone" ELSE "tmp")
                         EXCEPT ![p] = Returned(Frame(p), FALSE)],
               tmp |-> <<>>, tmpThere |-> FALSE]
  /\ Returns(p, FALSE)
  /\ UNCHANGED <<index, log, content, ops>>
  /\ PFrame

InitRace ==
  /\ index = EmptyDB
  /\ vectors = NoVectors
  /\ log = <<>>
  /\ content = [q \in {} |-> ""]
  /\ embedder = FALSE
  /\ last = [op |-> "init", id |-> "", ok |-> TRUE, proc |-> ""]
  /\ ops = 0
  /\ snap = NoSnap
  /\ wa = WAIdle
  /\ procs = [fr |-> [p \in Procs |-> IdleFrame], tmp |-> <<>>, tmpThere |-> FALSE]

CreateSteps(p) == PWrite(p) \/ PInsert(p) \/ PRollback(p) \/ PAppend(p)

UpdateSteps(p) == PUWrite(p) \/ PUpdateRow(p)

DeleteSteps(p) == PGet(p) \/ PDeleteRow(p) \/ PUnlink(p)

WriteAllSteps(p) == PCreateTmp(p) \/ PEncode(p) \/ PClose(p) \/ PRename(p) \/ PRemoveTmp(p)

\* two processes creating
NextRaceCreate ==
  \E p \in Procs :
    \/ \E id \in IDs, text \in {"x", "y"} : PStartCreate(p, id, text)
    \/ CreateSteps(p)

SpecRaceCreate == InitRace /\ [][NextRaceCreate]_vars

\* two processes creating, updating and deleting
NextRace ==
  \E p \in Procs :
    \/ \E id \in IDs : PStartCreate(p, id, "x")
    \/ \E id \in IDs, text \in {"", "y"} : PStartUpdate(p, id, text)
    \/ \E id \in IDs : PStartDelete(p, id)
    \/ CreateSteps(p)
    \/ UpdateSteps(p)
    \/ DeleteSteps(p)
    \/ PAll(p)
    \/ WriteAllSteps(p)

SpecRace == InitRace /\ [][NextRace]_vars

\* the Store with an Embedder configured, which may fail on any call
InitVec ==
  /\ index = EmptyDB
  /\ vectors = NoVectors
  /\ log = <<>>
  /\ content = [q \in {} |-> ""]
  /\ embedder = TRUE
  /\ last = Outcome("init", "", "none", FALSE, "", FALSE, FALSE)
  /\ ops = 0
  /\ snap = NoSnap
  /\ wa = WAIdle
  /\ procs = NoProcs

CreateVec == CreateOver({"d1"}, {3}, {"x"}, {"none", "append"}, BOOLEAN)

UpdateVec == UpdateOver(Descriptions, {3}, {"", "y"}, {"none", "update"}, BOOLEAN)

DeleteVec == DeleteOver({"none"})

SyncFromVec == SyncFromOver({"none"})

NextVec == CreateVec \/ UpdateVec \/ DeleteVec \/ SyncFromVec

SpecVec == InitVec /\ [][NextVec]_vars

\* ------------------------------------------- JSONL.WriteAll, step by step
\* the pearls a stand-alone WriteAll call may be given
WAPearls ==
  { [NewPearl(i, "d1", 2) EXCEPT !.content_path = PathForPearl(Entry(i).namespace, Entry(i).name),
                                 !.content_hash = HashString("x")] : i \in IDs }

WABatches == UNION { [1..n -> WAPearls] : n \in 0..MaxBatch }

InitWA ==
  /\ index = EmptyDB
  /\ vectors = NoVectors
  /\ log \in { EncodeAll(b) : b \in WABatches }
  /\ content = [q \in {} |-> ""]
  /\ embedder = FALSE
  /\ last = Outcome("init", "", "none", FALSE, "", FALSE, FALSE)
  /\ ops = 0
  /\ snap = NoSnap
  /\ wa = [WAIdle EXCEPT !.old = log]
  /\ procs = NoProcs

WAFrame == UNCHANGED <<index, vectors, content, embedder, last, ops, snap, procs>>

\* mutant: the error paths forget the temporary file
WARemoveTmp_Forgotten(w) == w

\* os.Remove(tmpPath)
WARemoveTmp(w) == [w EXCEPT !.hasTmp = FALSE, !.tmp = <<>>]

\* an error return after the temporary file was created
WAFail(w) == [WARemoveTmp(w) EXCEPT !.pc = "done", !.err = TRUE]

\* the call, and os.MkdirAll
WACall(pearls, ok) ==
  /\ wa.pc \in {"idle", "done"}
  /\ wa' = [wa EXCEPT !.pc = IF ok THEN "create" ELSE "done", !.err = ~ok,
                       !.input = pearls, !.old = log, !.made = FALSE]
  /\ UNCHANGED log
  /\ WAFrame

\* os.Create(tmpPath)
WACreateTmp(ok) ==
  /\ wa.pc = "create"
  /\ wa' = IF ok THEN [wa EXCEPT !.pc = "encode", !.hasTmp = TRUE, !.made = TRUE, !.tmp = <<>>]
           ELSE [wa EXCEPT !.pc = "done", !.err = TRUE]
  /\ UNCHANGED log
  /\ WAFrame

\* encoder.Encode(p) for the next pearl of the batch
WAEncode(ok) ==
  /\ wa.pc = "encode"
  /\ Len(wa.tmp) < Len(wa.input)
  /\ wa' = IF ok THEN [wa EXCEPT !.tmp = Append(@, EncodeLine(wa.input[Len(wa.tmp) + 1]))]
           ELSE WAFail(wa)
  /\ UNCHANGED log
  /\ WAFrame

\* file.Sync(), the loop being over
WASync(ok) ==
  /\ wa.pc = "encode"
  /\ Len(wa.tmp) = Len(wa.input)
  /\ wa' = IF ok THEN [wa EXCEPT !.pc = "close"] ELSE WAFail(wa)
  /\ UNCHANGED log
  /\ WAFrame

\* file.Close()
WAClose(ok) ==
  /\ wa.pc = "close"
  /\ wa' = IF ok THEN [wa EXCEPT !.pc = "rename"] ELSE WAFail(wa)
  /\ UNCHANGED log
  /\ WAFrame

\* os.Rename(tmpPath, j.path): the temporary file becomes the log
WARename(ok) ==
  /\ wa.pc = "rename"
  /\ IF ok
     THEN /\ log' = wa.tmp
          /\ wa' = [wa EXCEPT !.pc = "done", !.err = FALSE, !.hasTmp = FALSE, !.tmp = <<>>]
     ELSE /\ wa' = WAFail(wa)
          /\ UNCHANGED log
  /\ WAFrame

\* the process dies between two steps; the files stay as they are
WACrash ==
  /\ wa.pc \in {"create", "encode", "close", "rename"}
  /\ wa' = [wa EXCEPT !.pc = "crashed"]
  /\ UNCHANGED log
  /\ WAFrame

NextWA ==
  \/ \E b \in WABatches, ok \in BOOLEAN : WACall(b, ok)
  \/ \E ok \in BOOLEAN : WACreateTmp(ok)
  \/ \E ok \in BOOLEAN : WAEncode(ok)
  \/ \E ok \in BOOLEAN : WASync(ok)
  \/ \E ok \in BOOLEAN : WAClose(ok)
  \/ \E ok \in BOOLEAN : WARename(ok)
  \/ WACrash

SpecWA == InitWA /\ [][NextWA]_vars

\* the record sets syncToJSONL hands to WriteAll: what DB.All returns, each
\* pearl once, in the order of the listing
RaceBatches ==
  { SelectSeq([k \in 1..Len(Catalog) |-> CHOOSE q \in WAPearls : q.id = Catalog[k].id],
              LAMBDA q : q.id \in S) : S \in SUBSET IDs }

\* two processes in JSONL.WriteAll
NextRaceWA ==
  \E p \in Procs :
    \/ \E b \in RaceBatches : PStartWriteAll(p, b)
    \/ WriteAllSteps(p)

SpecRaceWA == InitRace /\ [][NextRaceWA]_vars

\* ------------------------------------------------------------------ reads
\* Store.Get then Store.GetContent: the text, or the read error
GetContent(c, p) ==
  IF p.content_path = "" THEN [ok |-> TRUE, text |-> ""]
  ELSE IF ContentExists(c, p.content_path)
       THEN [ok |-> TRUE, text |-> ContentRead(c, p.content_path)]
       ELSE [ok |-> FALSE, text |-> ""]

\* the record's hash is that of some non-empty content it was given
GivenContent(p) == p.content_hash \notin {"", HashString("")}

\* a step of the behaviour that was a call of op
Called(op) == ops' = ops + 1 /\ last'.op = op

\* ----------------------------------------------------------------- claims

\* C1: a Create whose ID is already in the index fails and leaves the index,
\* the log and the content tree (the existing record's file included) as
\* they were before the call.
C1_CollidingCreateChangesNothing ==
  [][ (Called("Create") /\ DBHas(index, last'.id))
        => (~last'.ok /\ index' = index /\ log' = log /\ content' = content) ]_vars

C3_IndexedContentExists ==
  \A i \in DOMAIN index :
    GivenContent(DBGet(index, i))
      => ContentExists(content, DBGet(index, i).content_path)

\* C9: after any Create and Update calls, failed ones included, every
\* indexed record with non-empty content has the hash of the file at its
\* content path.
C9_HashMatchesFile ==
  \A i \in DOMAIN index :
    GivenContent(DBGet(index, i))
      => /\ ContentExists(content, DBGet(index, i).content_path)
         /\ ContentHash(content, DBGet(index, i).content_path)
              = DBGet(index, i).content_hash

\* C10, as claimed: after a successful Create(r, c), for any c including the
\* empty string, GetContent(Get(r.id)) is c and the stored hash is that of c.
C10_RoundTripAnyContent ==
  (last.op = "Create" /\ last.ok)
    => /\ DBHas(index, last.id)
       /\ GetContent(content, DBGet(index, last.id)) = [ok |-> TRUE, text |-> last.text]
       /\ DBGet(index, last.id).content_hash = HashString(last.text)

\* C10, amended: after a successful Create(r, c) with c non-empty,
\* GetContent(Get(r.id)) is c and the stored hash is that of c.
C10_RoundTripNonEmpty ==
  (last.op = "Create" /\ last.ok /\ last.text # "")
    => /\ DBHas(index, last.id)
       /\ GetContent(content, DBGet(index, last.id)) = [ok |-> TRUE, text |-> last.text]
       /\ DBGet(index, last.id).content_hash = HashString(last.text)

C10_Witness ==
  /\ last.op = "Create" /\ last.ok /\ last.text = "x"
  /\ DBHas(index, last.id)

\* C4: SyncToJSONL followed by SyncFromJSONL leaves the index holding the
\* records, field for field, that it held before the round trip.
C4_RoundTripKeepsIndex ==
  (last.op = "SyncFromJSONL" /\ last.ok /\ snap.armed)
    => IndexRecords(index) = snap.set

C4_Witness ==
  /\ last.op = "SyncFromJSONL" /\ last.ok /\ snap.armed
  /\ \E p \in snap.set : GivenContent(p)

\* C5: the log never holds two lines for one record ID, whichever calls
\* wrote to it and whatever state they found (a fresh checkout included).
C5_OneLinePerID == \A i \in IDs : LinesFor(log, i) <= 1

\* the log parses and holds exactly the index's records, one line each
LogMatchesIndex(ix, lg) ==
  /\ ~ReadAllFails(lg)
  /\ { ReadAll(lg)[k] : k \in 1..Len(lg) } = IndexRecords(ix)
  /\ Len(lg) = Cardinality(DOMAIN ix)

\* C6: once a Create has lost its append, the next Update, Delete or
\* SyncToJSONL that succeeds leaves the log holding exactly the index's
\* records with the same field values.
C6_RewriteRepairsLog ==
  (last.op \in {"Update", "Delete", "SyncToJSONL"} /\ last.ok)
    => LogMatchesIndex(index, log)

C6_Witness ==
  /\ last.op \in {"Update", "Delete", "SyncToJSONL"} /\ last.ok
  /\ last.behind
  /\ Cardinality(DOMAIN index) = 2

\* C7: with an Embedder configured, every row of the vector sub-index
\* belongs to a record that is in the index.
C7_NoOrphanVector == \A r \in DOMAIN vectors : r \in Rowids(index)

C11_AppendFailureKeepsRecord ==
  (last.op = "Create" /\ last.step = "append")
    => /\ ~last.ok
       /\ DBHas(index, last.id)
       /\ DBGet(index, last.id).content_hash
            = (IF last.text = "" THEN "" ELSE HashString(last.text))
       /\ last.text # ""
            => GetContent(content, DBGet(index, last.id))
                 = [ok |-> TRUE, text |-> last.text]

C11_Witness ==
  /\ last.op = "Create" /\ last.step = "append" /\ last.text = "x"
  /\ LinesFor(log, last.id) = 0

LogRecords(lg) == { ReadAll(lg)[k] : k \in 1..Len(lg) }

\* C13: after a successful SyncFromJSONL the records of the index are exactly
\* the records of the log, field for field, whatever the index held before.
C13_IndexEqualsLog ==
  (last.op = "SyncFromJSONL" /\ last.ok)
    => IndexRecords(index) = LogRecords(log)

\* C14: an Update given no content does not invoke the Embedder and leaves
\* the record's vector, its content file and its content hash as they were;
\* so only an Update given content regenerates the vector.
C14_MetadataUpdateKeepsVector ==
  [][ (Called("Update") /\ ~last'.given)
        => /\ last'.embed = "none"
           /\ vectors' = vectors
           /\ content' = content
           /\ (DBHas(index, last'.id) /\ DBHas(index', last'.id))
                => DBGet(index', last'.id).content_hash
                     = DBGet(index, last'.id).content_hash ]_vars

\* a description changed by an Update given no content: the record keeps the
\* vector computed for the description it had before
C14_Witness ==
  /\ last.op = "Update" /\ last.ok /\ ~last.given
  /\ HasEmbedding(vectors, index, last.id)
  /\ vectors[index[last.id].rowid].for = last.id
  /\ vectors[index[last.id].rowid].text
       # EmbedText(DBGet(index, last.id), GetContent(content, DBGet(index, last.id)).text)

\* C15: when the Embedder fails during Create or Update the call still
\* succeeds, and the record is in the index, the content tree and (the log
\* being one that parses) the log, as the call wrote it.
C15_EmbedFailureIsNotFatal ==
  (last.op \in {"Create", "Update"} /\ last.embed = "failed")
    => /\ last.ok
       /\ DBHas(index, last.id)
       /\ LET p == DBGet(index, last.id)
          IN /\ p.content_hash = HashString(last.text)
             /\ GetContent(content, p) = [ok |-> TRUE, text |-> last.text]
             /\ ~ReadAllFails(log)
                  => \E k \in 1..Len(log) :
                       /\ log[k]["id"] = last.id
                       /\ log[k]["content_hash"] = p.content_hash

C15_Witness ==
  /\ last.op = "Update" /\ last.embed = "failed" /\ last.text = "y"
  /\ DBHas(index, last.id)

C17_KeyedCallsFailCleanly ==
  [][ /\ (Called("DB.Insert") /\ DBHas(index, last'.id))
           => (~last'.ok /\ index' = index)
      /\ (Called("DB.Update") /\ ~DBHas(index, last'.id))
           => (~last'.ok /\ index' = index)
      /\ (Called("DB.Delete") /\ ~DBHas(index, last'.id))
           => (~last'.ok /\ index' = index)
      /\ (Called("DB.Get") /\ ~DBHas(index, last'.id))
           => (~last'.found /\ index' = index /\ (~last'.exec => last'.ok)) ]_vars

\* an Insert was refused for an ID the table holds
C17_Witness ==
  /\ last.op = "DB.Insert" /\ ~last.ok
  /\ DBHas(index, last.id)
  /\ Cardinality(DOMAIN index) = 2

\* where an ID stands in the order of namespace, then name
CatalogPos(id) == CHOOSE k \in 1..Len(Catalog) : Catalog[k].id = id

\* C18: whatever the filters, DB.List returns its rows by priority, highest
\* first, and rows of equal priority by namespace and name.
C18_ListOrderedByPriority ==
  last.op = "DB.List"
    => \A j, k \in 1..Len(last.result) :
         j < k
           => \/ last.result[j].priority > last.result[k].priority
              \/ /\ last.result[j].priority = last.result[k].priority
                 /\ CatalogPos(last.result[j].id) < CatalogPos(last.result[k].id)

\* C19: a run of doctor, in whatever state the catalog is and whether its
\* checks pass or fail, leaves the index, the log and the content tree as
\* they were.
C19_DoctorMutatesNothing ==
  [][ Called("doctor")
        => /\ index' = index
           /\ log' = log
           /\ content' = content ]_vars

\* doctor has run over an index that holds a record the log lacks, and has
\* reported the drift
C19_Witness ==
  /\ last.op = "doctor" /\ last.opened
  /\ \E i \in DOMAIN index : i \notin LogIDs(log)
  /\ \E q \in last.issues : q.check = "sync"

\* the catalog holds one record and nothing else: the index has it, the log
\* has its one line, and no file is in the content tree
OneRecordNoFile ==
  /\ Cardinality(DOMAIN index) = 1
  /\ Len(log) = 1 /\ ~ReadAllFails(log) /\ LogIDs(log) = DOMAIN index
  /\ \A i \in DOMAIN index : DBGet(index, i).content_path # ""
  /\ DOMAIN content = {}

\* C20: doctor, run with a config that loads over a catalog of one record
\* whose content_path names a file that was never written, reports one issue
\* in all: the missing-content issue, which names that record.
C20_OneMissingContentIssue ==
  (last.op = "doctor" /\ last.opened /\ ~last.dbFails /\ last.configOK
     /\ OneRecordNoFile)
    => last.issues = { Issue("missing", DOMAIN index) }

\* doctor has reported on such a catalog
C20_Witness ==
  /\ last.op = "doctor" /\ last.opened /\ ~last.dbFails /\ last.configOK
  /\ OneRecordNoFile
  /\ Cardinality(last.issues) = 1

Count(ids, id) == Cardinality({ k \in 1..Len(ids) : ids[k] = id })

\* C22: the IDs context assembles from --for and --scope hold every record
\* one of whose globs matches the path and every record that carries the
\* scope, each exactly once, also when a record does both.
C22_UnionHoldsEachOnce ==
  last.op = "context"
    => \A i \in DOMAIN index :
         (MatchPath(last.for, index[i].globs) \/ last.scope \in index[i].scopes)
           => Count(last.ids, i) = 1

\* X matches the path and carries the scope, Y carries the scope only, and
\* the list assembled holds the two
C22_Witness ==
  /\ last.op = "context" /\ last.for # <<>> /\ last.scope # ""
  /\ \E x, y \in DOMAIN index :
       /\ x # y
       /\ MatchPath(last.for, index[x].globs) /\ last.scope \in index[x].scopes
       /\ ~MatchPath(last.for, index[y].globs) /\ last.scope \in index[y].scopes
       /\ Seen(last.ids) = {x, y}

\* a record with the two fields an archive may change blanked
BesidesStatus(p) == [p EXCEPT !.status = "", !.updated_at = 0]

\* C23: an archive that succeeds, by the archive command or by delete
\* without --force, changes the record's status and nothing else: the
\* record is in the index and in the log with status archived and its other
\* fields as before, and the content tree is as it was.
C23_ArchiveIsStatusOnly ==
  [][ ((Called("archive") \/ Called("delete")) /\ last'.ok)
        => /\ DBHas(index', last'.id)
           /\ DBGet(index', last'.id).status = "archived"
           /\ BesidesStatus(DBGet(index', last'.id)) = BesidesStatus(DBGet(index, last'.id))
           /\ \E k \in 1..Len(log') :
                /\ ParsesAsPearl(log'[k])
                /\ DecodeLine(log'[k]).id = last'.id
                /\ DecodeLine(log'[k]).status = "archived"
           /\ content' = content ]_vars

\* a record that has a content file was archived by delete without --force
C23_Witness ==
  /\ last.op = "delete" /\ last.ok
  /\ DBHas(index, last.id)
  /\ DBGet(index, last.id).status = "archived"
  /\ ContentExists(content, DBGet(index, last.id).content_path)

\* the IDs the rule "dot-separated segments of lowercase letters, digits and
\* hyphens" admits
HyphenSegment(seg) ==
  Len(seg) > 0 /\ \A k \in 1..Len(seg) : seg[k] \in Lower \cup Digit \cup {"-"}

HyphenIDs ==
  { Concat(c) : c \in { i \in IDInputs :
                          Len(i) > 0 /\ \A k \in 1..Len(Split(i)) : HyphenSegment(Split(i)[k]) } }

\* C24: create accepts an ID exactly when it is a non-empty dot-separated
\* sequence of segments of lowercase letters, digits and hyphens, and an ID
\* it rejects is rejected with no store touched.
C24_IDAcceptedIffHyphenSegments ==
  [][ Called("runCreate")
        => /\ (last'.step # "validate") <=> (last'.id \in HyphenIDs)
           /\ last'.step = "validate"
                => index' = index /\ log' = log /\ content' = content ]_vars

\* both processes have returned from calls that ran side by side
BothReturned ==
  \A p \in Procs : Frame(p).pc = "done" /\ Frame(p).overlap

\* C25: when two processes have created the same new ID side by side with
\* different content, one call has succeeded and the other failed, and the
\* record's content file exists and hashes to the record's content_hash.
C25_RacingCreatesLeaveOneWhole ==
  (/\ BothReturned
   /\ \A p \in Procs : Frame(p).op = "Create"
   /\ Frame("p1").id = Frame("p2").id
   /\ Frame("p1").text # Frame("p2").text)
    => /\ Cardinality({ p \in Procs : Frame(p).res = "ok" }) = 1
       /\ DBHas(index, Frame("p1").id)
       /\ LET r == DBGet(index, Frame("p1").id)
          IN /\ ContentExists(content, r.content_path)
             /\ ContentHash(content, r.content_path) = r.content_hash

\* C26: when two processes have run Create, Update or Delete side by side
\* on different IDs and both returned success, every record in the index has
\* its line in the log.
C26_RacingCallsLoseNoLogEntry ==
  (/\ BothReturned
   /\ \A p \in Procs : Frame(p).op \in {"Create", "Update", "Delete"} /\ Frame(p).res = "ok"
   /\ Frame("p1").id # Frame("p2").id)
    => \A i \in DOMAIN index : LinesFor(log, i) >= 1

\* C30: while two processes run JSONL.WriteAll side by side on one log path,
\* the log file is at every moment the complete serialisation of one
\* caller's record set (or the file as it was before the calls), never a
\* mixture or a truncation.
C30_RacingWriteAllNeverMixes ==
  log = <<>> \/ \E b \in RaceBatches : log = EncodeAll(b)

\* C27: once SyncFromJSONL has returned nil on a catalog that had vectors,
\* every result of a semantic search pairs a record with a vector that was
\* computed for that record.
C27_SyncKeepsVectorsWithTheirRecord ==
  [][(Called("SyncFromJSONL") /\ last'.ok /\ vectors # NoVectors)
       => \A r \in SearchSemantic(vectors', index') : r.vec.for = r.id]_vars

\* C28: when SyncFromJSONL returns an error, whether from reading the log,
\* from clearing the table or from re-inserting a record, the index holds
\* the same records as before the call.
C28_FailedSyncLeavesIndex ==
  [][(Called("SyncFromJSONL") /\ ~last'.ok)
       => IndexRecords(index') = IndexRecords(index)]_vars

\* C29: when Update has written new content and its DB.Update step then
\* fails, nothing is rolled back: the content file holds the new content,
\* the index is as before and the log is not rewritten.
C29_FailedUpdateKeepsNewContent ==
  [][(Called("Update") /\ last'.step = "update" /\ last'.given)
       => LET id   == last'.id
              path == IF DBHas(index, id) THEN DBGet(index, id).content_path
                      ELSE PathForPearl(Entry(id).namespace, Entry(id).name)
          IN /\ ContentExists(content', path)
             /\ ContentRead(content', path) = last'.text
             /\ \A q \in (DOMAIN content) \ {path} :
                   ContentExists(content', q) /\ ContentRead(content', q) = ContentRead(content, q)
             /\ index' = index
             /\ log' = log]_vars

C29_Witness ==
  /\ last.op = "Update" /\ last.step = "update" /\ last.given /\ last.text = "y"
  /\ DBHas(index, last.id)
  /\ ContentRead(content, DBGet(index, last.id).content_path) = "y"
  /\ DBGet(index, last.id).content_hash = HashString("x")
  /\ LinesFor(log, last.id) = 1

====
